---- MODULE Spec2Model ----
(***************************************************************************)
(* StreamReader of src/lib/index.ts: a pull-style read/peek API over a      *)
(* push-style stream.Readable.                                             *)
(*                                                                         *)
(* The source produces the bytes Src[1], Src[2], ... (all different, so a   *)
(* reordered, duplicated or skipped byte shows).  The caller's destination  *)
(* is a Node Buffer of BufLen bytes, initially zero; every call names a     *)
(* region [offset, offset+length) inside it.  A chunk of the peek queue is  *)
(* what Buffer.slice returns: a view (start, len) on the caller's buffer,   *)
(* not a copy.                                                              *)
(*                                                                         *)
(* An async function runs up to its first await that has to wait; the      *)
(* continuations (the .then callback of _read, the rest of read and peek)   *)
(* are steps of their own, and the stream's events interleave with them.    *)
(***************************************************************************)
EXTENDS Integers, Sequences, FiniteSets, TLC

MaxSrc == 2
BufLen == 4
MaxQueue == 1

Src == [i \in 1..MaxSrc |-> i]

Tasks == {1, 2}

EndOfStreamMsg == "End-Of-Stream"
StreamClosedMsg == "Stream closed"
ConcurrentMsg == "Concurrent read operation?"
SourceErrors == {"E1"}

VARIABLES
  pushed,       \* bytes the stream has buffered so far (counted from the start)
  taken,        \* bytes s.read() has handed out so far
  srcDone,      \* the stream was told there is no more data (push(null))
  fired,        \* termination events already emitted ("end", "close", or the error
                \* that 'error' carried): each listener is a once()
  listeners,    \* once('readable') listeners currently registered
  endOfStream,  \* StreamReader.endOfStream
  request,      \* StreamReader.request (NoRequest when null)
  deferred,     \* per task: the Deferred of the request it created
  peekQueue,    \* StreamReader.peekQueue: views on the caller's buffer, top last
  mem,          \* the caller's buffer
  pc,           \* per task: where its read/peek call stands
  op,           \* per task: the call's arguments and locals
  lastPeek,     \* the call that completed last, when it was a successful peek
  delivered,    \* bytes returned by the successful read calls, in call order
  errorAt,      \* how 'error' found the reader: "none" not emitted, "pending" a
                \* request was waiting, "idle" none was and no call was made since,
                \* "past" none was and a call has been made
  crashed       \* an exception escaped an event listener

vars == <<pushed, taken, srcDone, fired, listeners, endOfStream, request, deferred,
          peekQueue, mem, pc, op, lastPeek, delivered, errorAt, crashed>>

srcVars == <<pushed, taken, srcDone, fired, listeners>>
ghostVars == <<lastPeek, delivered>>

Min(a, b) == IF a < b THEN a ELSE b

NoRequest == [task |-> 0, offset |-> 0, length |-> 0]

NoDeferred == [st |-> "none", n |-> 0, err |-> "none"]
PendingDeferred == [st |-> "pending", n |-> 0, err |-> "none"]

Ok(n) == [ok |-> TRUE, n |-> n, err |-> "none"]
Err(e) == [ok |-> FALSE, n |-> 0, err |-> e]

NoOp == [kind |-> "none", offset |-> 0, length |-> 0, pre |-> 0, ret |-> Ok(0)]

NoPeek == [length |-> 0, n |-> 0, bytes |-> <<>>, taken |-> 0, qbytes |-> 0,
           valid |-> FALSE]

\* Buffer.copy: target[dst..dst+n) := source[src..src+n), right when they overlap
Copy(m, dst, src, n) ==
  [i \in 1..BufLen |-> IF dst < i /\ i <= dst + n THEN m[src + (i - dst)] ELSE m[i]]

\* readBuffer.copy(buffer, offset) for the k source bytes that follow position from
CopyFromSource(m, dst, from, k) ==
  [i \in 1..BufLen |-> IF dst < i /\ i <= dst + k THEN Src[from + (i - dst)] ELSE m[i]]

\* the bytes of the caller's buffer in [start, start+len)
Bytes(m, start, len) == [i \in 1..len |-> m[start + i]]

\* s.read(n) of a stream.Readable holding avail buffered bytes: n bytes when that
\* many are buffered, what is left once the stream has been told it is over,
\* otherwise null (0 here)
SourceRead(avail, done, n) ==
  IF avail >= n THEN n
  ELSE IF done /\ avail > 0 THEN avail
  ELSE 0

\* read without its "length === 0" return
ZeroLengthNotTested(length) == FALSE

\* read, line 77
ZeroLength(length) == length = 0

\* read, line 81
NothingLeft(q, eos) == Len(q) = 0 /\ eos

\* read without the endOfStream test of line 100
NeedsStreamThoughEnded(remaining, eos) == remaining > 0

\* read, line 100
NeedsStream(remaining, eos) == remaining > 0 /\ ~eos

\* _read without its assertion
RequestFreeNotAsserted(r) == TRUE

\* _read, line 115: assert.ok(!this.request)
RequestFree(r) == r = NoRequest

\* peek with buffer.slice(offset, bytesRead)
PeekSliceEndsAtCount(offset, bytesRead) ==
  IF bytesRead <= offset THEN [start |-> 0, len |-> 0]
  ELSE [start |-> offset, len |-> bytesRead - offset]

\* peek, line 65: buffer.slice(offset, offset + bytesRead); an empty view has no
\* place in the buffer
PeekSlice(offset, bytesRead) ==
  IF bytesRead = 0 THEN [start |-> 0, len |-> 0]
  ELSE [start |-> offset, len |-> bytesRead]

\* read, line 96: peekData.slice(lenCopy)
Remainder(peekData, lenCopy) ==
  [start |-> peekData.start + lenCopy, len |-> peekData.len - lenCopy]

\* read with "if" for the "while" of line 88: only the top chunk is consumed
ConsumePeekedOnce(q, m, offset, bytesRead, remaining) ==
  IF Len(q) > 0 /\ remaining > 0
  THEN LET peekData == q[Len(q)]
           popped == SubSeq(q, 1, Len(q) - 1)
           lenCopy == Min(peekData.len, remaining)
       IN  [queue |-> IF lenCopy < peekData.len
                      THEN Append(popped, Remainder(peekData, lenCopy))
                      ELSE popped,
            mem |-> Copy(m, offset + bytesRead, peekData.start, lenCopy),
            bytesRead |-> bytesRead + lenCopy,
            remaining |-> remaining - lenCopy]
  ELSE [queue |-> q, mem |-> m, bytesRead |-> bytesRead, remaining |-> remaining]

\* read, lines 88-98: consume peeked data first
RECURSIVE ConsumePeeked(_, _, _, _, _)
ConsumePeeked(q, m, offset, bytesRead, remaining) ==
  IF Len(q) > 0 /\ remaining > 0
  THEN LET peekData == q[Len(q)]
           popped == SubSeq(q, 1, Len(q) - 1)
           lenCopy == Min(peekData.len, remaining)
           m2 == Copy(m, offset + bytesRead, peekData.start, lenCopy)
           q2 == IF lenCopy < peekData.len
                 THEN Append(popped, Remainder(peekData, lenCopy))
                 ELSE popped
       IN  ConsumePeeked(q2, m2, offset, bytesRead + lenCopy, remaining - lenCopy)
  ELSE [queue |-> q, mem |-> m, bytesRead |-> bytesRead, remaining |-> remaining]

\* a promise that its reject settles anew
RejectOverrides(d, e) == [st |-> "rejected", n |-> 0, err |-> e]

\* Deferred.resolve / Deferred.reject: the first of them fixes the promise
Resolve(d, n) == IF d.st = "pending" THEN [st |-> "resolved", n |-> n, err |-> "none"] ELSE d
Reject(d, e) == IF d.st = "pending" THEN [st |-> "rejected", n |-> 0, err |-> e] ELSE d

\* the bytes held by the peek queue, in the order read consumes them
RECURSIVE QueueBytes(_, _)
QueueBytes(q, m) ==
  IF Len(q) = 0 THEN <<>>
  ELSE Bytes(m, q[Len(q)].start, q[Len(q)].len) \o QueueBytes(SubSeq(q, 1, Len(q) - 1), m)

Init ==
  /\ pushed = 0
  /\ taken = 0
  /\ srcDone = FALSE
  /\ fired = {}
  /\ listeners = 0
  /\ endOfStream = FALSE
  /\ request = NoRequest
  /\ deferred = [c \in Tasks |-> NoDeferred]
  /\ peekQueue = <<>>
  /\ mem = [i \in 1..BufLen |-> 0]
  /\ pc = [c \in Tasks |-> "idle"]
  /\ op = [c \in Tasks |-> NoOp]
  /\ lastPeek = NoPeek
  /\ delivered = <<>>
  /\ errorAt = "none"
  /\ crashed = FALSE

\* read(buffer, offset, length) or peek(buffer, offset, length) up to the first
\* await that has to wait: read's body and the synchronous part of _read
Call(c, kind, offset, length) ==
  /\ ~crashed
  /\ pc[c] = "idle"
  /\ kind = "peek" /\ length = 0 => Len(peekQueue) < MaxQueue
  /\ LET d == ConsumePeeked(peekQueue, mem, offset, 0, length)
         k == SourceRead(pushed - taken, srcDone, d.remaining)
         args == [kind |-> kind, offset |-> offset, length |-> length,
                  pre |-> 0, ret |-> Ok(0)]
         settled(r) == /\ pc' = [pc EXCEPT ![c] = "resume"]
                       /\ op' = [op EXCEPT ![c] = [args EXCEPT !.ret = r]]
     IN  IF ZeroLength(length) THEN
           /\ settled(Ok(0))
           /\ UNCHANGED <<srcVars, request, deferred, peekQueue, mem>>
         ELSE IF NothingLeft(peekQueue, endOfStream) THEN
           /\ settled(Err(EndOfStreamMsg))
           /\ UNCHANGED <<srcVars, request, deferred, peekQueue, mem>>
         ELSE IF ~NeedsStream(d.remaining, endOfStream) THEN
           /\ settled(Ok(d.bytesRead))
           /\ peekQueue' = d.queue
           /\ mem' = d.mem
           /\ UNCHANGED <<srcVars, request, deferred>>
         ELSE IF ~RequestFree(request) THEN
           /\ settled(Err(ConcurrentMsg))
           /\ peekQueue' = d.queue
           /\ mem' = d.mem
           /\ UNCHANGED <<srcVars, request, deferred>>
         ELSE IF k > 0 THEN
           /\ settled(Ok(d.bytesRead + k))
           /\ peekQueue' = d.queue
           /\ mem' = CopyFromSource(d.mem, offset + d.bytesRead, taken, k)
           /\ taken' = taken + k
           /\ UNCHANGED <<pushed, srcDone, fired, listeners, request, deferred>>
         ELSE
           /\ pc' = [pc EXCEPT ![c] = "awaitRead"]
           /\ op' = [op EXCEPT ![c] = [args EXCEPT !.pre = d.bytesRead]]
           /\ peekQueue' = d.queue
           /\ mem' = d.mem
           /\ request' = [task |-> c, offset |-> offset + d.bytesRead,
                          length |-> d.remaining]
           /\ deferred' = [deferred EXCEPT ![c] = PendingDeferred]
           /\ listeners' = listeners + 1
           /\ UNCHANGED <<pushed, taken, srcDone, fired>>
  /\ errorAt' = IF errorAt = "idle" THEN "past" ELSE errorAt
  /\ UNCHANGED <<endOfStream, ghostVars, crashed>>

\* _read without "this.request = null" in the callbacks on the promise
SlotKept(r) == r

\* _read, lines 133 and 136: this.request = null
SlotCleared(r) == NoRequest

\* _read, lines 132-138: the callbacks on the request's promise, then read's
\* "bytesRead += await"
ThenCallback(c) ==
  /\ ~crashed
  /\ pc[c] = "awaitRead"
  /\ deferred[c].st \in {"resolved", "rejected"}
  /\ request' = SlotCleared(request)
  /\ pc' = [pc EXCEPT ![c] = "resume"]
  /\ op' = [op EXCEPT ![c].ret = IF deferred[c].st = "resolved"
                                 THEN Ok(op[c].pre + deferred[c].n)
                                 ELSE Err(deferred[c].err)]
  /\ deferred' = [deferred EXCEPT ![c] = NoDeferred]
  /\ UNCHANGED <<srcVars, endOfStream, peekQueue, mem, ghostVars, errorAt,
                 crashed>>

\* the cells of the caller's buffer that are still read from: those under a view
\* of the queue q, and the destination of every call in flight but task c's
Live(q, c) ==
  {i \in 1..BufLen :
     \/ \E j \in 1..Len(q) : q[j].start < i /\ i <= q[j].start + q[j].len
     \/ \E t \in Tasks \ {c} :
          pc[t] # "idle" /\ op[t].offset < i /\ i <= op[t].offset + op[t].length}

\* the queue after task c's call has settled: peek puts the slice it read back
\* (lines 65-66)
AfterCall(c) ==
  IF op[c].kind = "peek" /\ op[c].ret.ok
  THEN Append(peekQueue, PeekSlice(op[c].offset, op[c].ret.n))
  ELSE peekQueue

\* the bytes task c's call hands to its caller
Got(c) == IF op[c].ret.ok THEN Bytes(mem, op[c].offset, op[c].ret.n) ELSE <<>>

\* the call's promise settles and the awaiting caller goes on.  The caller has
\* then taken its bytes, and a cell that nothing reads any more is kept as 0.
Resume(c) ==
  /\ ~crashed
  /\ pc[c] = "resume"
  /\ peekQueue' = AfterCall(c)
  /\ mem' = [i \in 1..BufLen |-> IF i \in Live(AfterCall(c), c) THEN mem[i] ELSE 0]
  /\ pc' = [pc EXCEPT ![c] = "idle"]
  /\ op' = [op EXCEPT ![c] = NoOp]
  /\ UNCHANGED <<srcVars, endOfStream, request, deferred, errorAt, crashed>>

\* what the one caller that awaits each call has seen when task c's call settles
Observe(c) ==
  /\ lastPeek' = IF op[c].kind = "peek" /\ op[c].ret.ok
                 THEN [length |-> op[c].length, n |-> op[c].ret.n, bytes |-> Got(c),
                       taken |-> taken,
                       qbytes |-> Len(QueueBytes(AfterCall(c), mem)), valid |-> TRUE]
                 ELSE NoPeek
  /\ delivered' = IF op[c].kind = "read" THEN delivered \o Got(c) ELSE delivered

\* tryRead without its else branch
ListenerNotRenewed(n) == n

\* tryRead, lines 148-150: this.s.once('readable', ...) when there is no data yet
ListenerRenewed(n) == n + 1

\* tryRead, lines 142-152, on the state st a 'readable' emission has reached
TryRead(st) ==
  IF st.crashed THEN st
  ELSE IF request = NoRequest THEN [st EXCEPT !.crashed = TRUE]
  ELSE LET k == SourceRead(pushed - st.taken, srcDone, request.length)
       IN  IF k > 0
           THEN [st EXCEPT !.mem = CopyFromSource(st.mem, request.offset, st.taken, k),
                           !.taken = st.taken + k,
                           !.deferred = [st.deferred EXCEPT ![request.task] =
                                           Resolve(st.deferred[request.task], k)]]
           ELSE [st EXCEPT !.listeners = ListenerRenewed(st.listeners)]

\* emit('readable'): every once() listener registered at that moment runs
RECURSIVE EmitReadable(_, _)
EmitReadable(n, st) == IF n = 0 THEN st ELSE EmitReadable(n - 1, TryRead(st))

\* the stream signals 'readable' (lines 129-131, 148-150)
Readable ==
  /\ ~crashed
  /\ listeners > 0
  /\ "end" \notin fired
  /\ "close" \notin fired
  /\ LET st == EmitReadable(listeners, [mem |-> mem, taken |-> taken,
                                        deferred |-> deferred, listeners |-> 0,
                                        crashed |-> FALSE])
     IN  /\ mem' = st.mem
         /\ taken' = st.taken
         /\ deferred' = st.deferred
         /\ listeners' = st.listeners
         /\ crashed' = st.crashed
  /\ UNCHANGED <<pushed, srcDone, fired, endOfStream, request, peekQueue, pc, op,
                 ghostVars, errorAt>>

\* reject, lines 154-160
RejectRequest(err) ==
  /\ endOfStream' = TRUE
  /\ IF request # NoRequest
     THEN /\ deferred' = [deferred EXCEPT ![request.task] =
                            Reject(deferred[request.task], err)]
          /\ request' = NoRequest
     ELSE UNCHANGED <<deferred, request>>

\* a chunk of k bytes arrives in the stream
Push(k) ==
  /\ ~crashed
  /\ ~srcDone
  /\ "close" \notin fired
  /\ pushed + k <= MaxSrc
  /\ pushed' = pushed + k
  /\ UNCHANGED <<taken, srcDone, fired, listeners, endOfStream, request, deferred,
                 peekQueue, mem, pc, op, ghostVars, errorAt, crashed>>

\* the stream is told there is no more data
SourceEnd ==
  /\ ~crashed
  /\ ~srcDone
  /\ "close" \notin fired
  /\ srcDone' = TRUE
  /\ UNCHANGED <<pushed, taken, fired, listeners, endOfStream, request, deferred,
                 peekQueue, mem, pc, op, ghostVars, errorAt, crashed>>

\* 'end' (line 50): emitted once all data has been read
OnEnd ==
  /\ ~crashed
  /\ srcDone
  /\ taken = pushed
  /\ "end" \notin fired
  /\ "close" \notin fired
  /\ fired' = fired \cup {"end"}
  /\ RejectRequest(EndOfStreamMsg)
  /\ UNCHANGED <<pushed, taken, srcDone, listeners, peekQueue, mem, pc, op,
                 ghostVars, errorAt, crashed>>

\* 'error' (line 51)
OnError(err) ==
  /\ ~crashed
  /\ fired \cap SourceErrors = {}
  /\ "close" \notin fired
  /\ fired' = fired \cup {err}
  /\ RejectRequest(err)
  /\ errorAt' = IF request # NoRequest /\ deferred[request.task].st = "pending"
                THEN "pending" ELSE "idle"
  /\ UNCHANGED <<pushed, taken, srcDone, listeners, peekQueue, mem, pc, op,
                 ghostVars, crashed>>

\* 'close' (line 52)
OnClose ==
  /\ ~crashed
  /\ "close" \notin fired
  /\ fired' = fired \cup {"close"}
  /\ RejectRequest(StreamClosedMsg)
  /\ UNCHANGED <<pushed, taken, srcDone, listeners, peekQueue, mem, pc, op,
                 ghostVars, errorAt, crashed>>

Kinds == {"read", "peek"}

SourceStep ==
  \/ \E k \in 1..MaxSrc : Push(k)
  \/ SourceEnd
  \/ Readable
  \/ OnEnd
  \/ \E e \in SourceErrors : OnError(e)
  \/ OnClose

\* a task starts a call of one of kinds on a region of the buffer that begins at
\* one of offsets, or one of its continuations runs
TaskStep(c, kinds, offsets, awaited) ==
  \/ \E kind \in kinds, offset \in offsets :
       \E length \in 0..BufLen - offset : Call(c, kind, offset, length)
  \/ ThenCallback(c)
  \/ Resume(c) /\ IF awaited THEN Observe(c) ELSE UNCHANGED ghostVars

\* one reader: every call is awaited before the next is made
Next == SourceStep \/ TaskStep(1, Kinds, 0..BufLen - 1, TRUE)

Spec == Init /\ [][Next]_vars

\* a second task reads from the same reader without waiting for the first one's
\* calls, both into the buffer from its start
NextConc ==
  \/ SourceStep
  \/ TaskStep(1, Kinds, {0}, FALSE)
  \/ TaskStep(2, {"read"}, {0}, FALSE)

SpecConc == Init /\ [][NextConc]_vars

\* one reader whose calls all go to the start of the buffer
NextLive == SourceStep \/ TaskStep(1, Kinds, {0}, FALSE)

\* the source goes on: it is told at some time that there is no more data, it
\* signals readiness as long as somebody listens for it, and it signals its end
\* once all its data has been read
SourceGoesOn == WF_vars(SourceEnd) /\ WF_vars(Readable) /\ WF_vars(OnEnd)

SpecLive == Init /\ [][NextLive]_vars /\ SourceGoesOn

----------------------------------------------------------------------------
IsPrefix(s, t) == Len(s) <= Len(t) /\ \A i \in 1..Len(s) : s[i] = t[i]

\* C1: the bytes returned by the successful read calls of an awaiting caller,
\* in call order, are a prefix of the bytes the source produced: none is
\* reordered, duplicated or skipped.
C1_DeliveredInOrder == IsPrefix(delivered, Src)

\* C2: a successful peek(n) followed at once by read(n) yields the same byte
\* count and the same bytes both times, whatever the stream signals in between.
C2_PeekThenRead ==
  (pc[1] = "resume" /\ op[1].kind = "read" /\ lastPeek.valid
     /\ op[1].length = lastPeek.length)
  => (op[1].ret.ok /\ op[1].ret.n = lastPeek.n /\ Got(1) = lastPeek.bytes)

\* the tasks whose low-level read is outstanding: they wait on a Deferred that is
\* neither resolved nor rejected
Outstanding == {c \in Tasks : pc[c] = "awaitRead" /\ deferred[c].st = "pending"}

\* task c starts a call in this step
Calls(c) == pc[c] = "idle" /\ pc'[c] # "idle"

\* the number of bytes the peek queue holds
QueueLen == Len(QueueBytes(peekQueue, mem))

\* C3: at most one low-level read is outstanding at any time, and it is the one
\* the request slot holds, however the calls of two tasks, the readiness and the
\* termination signals interleave.
C3_OneOutstanding ==
  /\ Cardinality(Outstanding) <= 1
  /\ \A c \in Outstanding : request.task = c

C3_Witness ==
  /\ Outstanding = {1}
  /\ pc[2] = "resume"
  /\ op[2].length > 0

\* C4: once the source has signalled its normal end, a call for at least one byte
\* made while the peek queue holds no byte fails with End-Of-Stream, and one made
\* while it holds bytes succeeds and returns those bytes.
C4_AfterEnd ==
  [][\A c \in Tasks :
       (Calls(c) /\ "end" \in fired /\ op'[c].length > 0)
       => /\ pc'[c] = "resume"
          /\ IF QueueLen = 0
             THEN op'[c].ret = Err(EndOfStreamMsg)
             ELSE /\ op'[c].ret = Ok(Min(op'[c].length, QueueLen))
                  /\ Bytes(mem', op'[c].offset, op'[c].ret.n)
                       = SubSeq(QueueBytes(peekQueue, mem), 1, op'[c].ret.n)]_vars

\* the error 'error' carried, if it has been emitted
Carried == fired \cap SourceErrors

\* C5: when the source signals an error while a read is pending, that read
\* rejects with exactly that error, the reader is ended, and every later call
\* for at least one byte fails too.
C5_ErrorWhilePending ==
  [][/\ (Carried = {} /\ Carried' # {} /\ Outstanding # {})
        => /\ endOfStream'
           /\ \A c \in Outstanding : deferred'[c].st = "rejected"
                                     /\ deferred'[c].err \in Carried'
     /\ \A c \in Tasks :
          (pc[c] = "awaitRead" /\ pc'[c] = "resume" /\ errorAt = "pending")
          => op'[c].ret.ok = FALSE /\ op'[c].ret.err \in Carried
     /\ \A c \in Tasks :
          (Calls(c) /\ errorAt = "pending" /\ op'[c].length > 0)
          => pc'[c] = "resume" /\ op'[c].ret.ok = FALSE]_vars

\* C6: an error the source signals while no read is pending is delivered by the
\* next read call: that call fails with the source's error.
C6_ErrorWhileIdle ==
  [][\A c \in Tasks :
       (Calls(c) /\ errorAt = "idle" /\ op'[c].kind = "read" /\ op'[c].length > 0)
       => /\ pc'[c] = "resume"
          /\ op'[c].ret.ok = FALSE
          /\ op'[c].ret.err \in Carried]_vars

\* C7: a call that needs bytes from the stream while a request is registered
\* fails with the assertion's error, and the request, its Deferred, its readiness
\* listener and the stream are left as they are.
C7_SecondReadAsserts ==
  [][\A c \in Tasks :
       (Calls(c) /\ request # NoRequest /\ ~endOfStream /\ op'[c].length > QueueLen)
       => /\ pc'[c] = "resume"
          /\ op'[c].ret = Err(ConcurrentMsg)
          /\ UNCHANGED <<request, deferred, srcVars>>]_vars

C7_Witness ==
  /\ pc[1] = "awaitRead"
  /\ request.task = 1
  /\ deferred[1].st = "pending"
  /\ pc[2] = "resume"
  /\ op[2].ret = Err(ConcurrentMsg)

\* C8: read(buffer, offset, 0) yields 0 whether the reader is idle, waits for data
\* or is ended, and changes neither the peek queue nor the request nor the stream.
C8_ReadOfNothing ==
  [][\A c \in Tasks :
       /\ (Calls(c) /\ op'[c].kind = "read" /\ op'[c].length = 0)
          => /\ pc'[c] = "resume"
             /\ op'[c].ret = Ok(0)
             /\ UNCHANGED <<peekQueue, mem, request, deferred, srcVars, endOfStream>>
       /\ (pc[c] = "resume" /\ pc'[c] = "idle" /\ op[c].kind = "read"
             /\ op[c].length = 0)
          => /\ QueueBytes(peekQueue', mem') = QueueBytes(peekQueue, mem)
             /\ UNCHANGED <<peekQueue, request, deferred, srcVars, endOfStream>>]_vars

C8_Witness ==
  /\ endOfStream
  /\ peekQueue = <<>>
  /\ pc[2] = "resume"
  /\ op[2].kind = "read"
  /\ op[2].length = 0
  /\ op[2].ret = Ok(0)

\* C9: a successful peek of n1 bytes followed at once by a successful peek of
\* n2 >= n1 bytes returns the first peek's bytes as the start of its own, and
\* takes from the stream only what the peek queue did not hold.
C9_PeekThenLongerPeek ==
  (pc[1] = "resume" /\ op[1].kind = "peek" /\ op[1].ret.ok /\ lastPeek.valid
     /\ op[1].length >= lastPeek.length)
  => /\ op[1].ret.n >= lastPeek.n
     /\ SubSeq(Got(1), 1, lastPeek.n) = lastPeek.bytes
     /\ taken - lastPeek.taken = op[1].ret.n - Min(op[1].length, lastPeek.qbytes)

C9_Witness ==
  /\ pc[1] = "resume"
  /\ op[1].kind = "peek"
  /\ op[1].ret.ok
  /\ lastPeek.valid
  /\ lastPeek.n > 0
  /\ op[1].length > lastPeek.length
  /\ op[1].offset # 0
  /\ taken > lastPeek.taken

\* C10: a read for more bytes than a non-empty peek queue holds, made when the
\* reader is ended, succeeds with what the queue holds: it copies those bytes to
\* the destination, returns their count, empties the queue and asks the stream
\* for nothing.
C10_ShortReadWhenEnded ==
  [][\A c \in Tasks :
       (Calls(c) /\ op'[c].kind = "read" /\ endOfStream /\ QueueLen > 0
          /\ op'[c].length > QueueLen)
       => /\ pc'[c] = "resume"
          /\ op'[c].ret = Ok(QueueLen)
          /\ Bytes(mem', op'[c].offset, QueueLen) = QueueBytes(peekQueue, mem)
          /\ peekQueue' = <<>>
          /\ UNCHANGED <<request, deferred, srcVars>>]_vars

\* C11: a request that waits for data is settled in the end, resolved by data or
\* rejected by a termination signal, when the source goes on to deliver or to
\* terminate: no readiness signal is lost.
C11_PendingIsSettled ==
  \A c \in Tasks : (deferred[c].st = "pending") ~> (deferred[c].st # "pending")

\* a request that a readiness signal resolved with the part of its bytes the
\* source had left when it was over
C11_Witness ==
  /\ pc[1] = "awaitRead"
  /\ deferred[1].st = "resolved"
  /\ srcDone
  /\ deferred[1].n < op[1].length - op[1].pre
  /\ listeners = 0

\* C12: once a termination signal has set endOfStream it stays set, no call and
\* no readiness callback takes bytes from the stream or registers a request any
\* more, and the signal itself rejects the request that waits and empties the
\* request slot in the same step.
C12_EndedIsAbsorbing ==
  [][/\ endOfStream
        => /\ endOfStream'
           /\ taken' = taken
           /\ request' = NoRequest
           /\ listeners' <= listeners
     /\ fired' # fired
        => /\ endOfStream'
           /\ request' = NoRequest
           /\ \A c \in Outstanding : deferred'[c].st = "rejected"]_vars

\* a read for two bytes made after a termination signal, while the stream still
\* holds a byte, has been served from the peek queue alone
C12_Witness ==
  /\ endOfStream
  /\ pushed > taken
  /\ pc[1] = "resume"
  /\ op[1].kind = "read"
  /\ op[1].length = 2
  /\ op[1].ret = Ok(1)

\* C13: with one reader that awaits every call before it makes the next, no call
\* fails on the assertion of the low-level read: when a call has settled and its
\* caller can go on, the request slot is empty, whatever the stream signalled.
C13_AssertionNeverFails ==
  /\ pc[1] = "resume" => op[1].ret # Err(ConcurrentMsg)
  /\ pc[1] \in {"resume", "idle"} => request = NoRequest

\* the caller goes on after its call took the peeked bytes and a readiness signal
\* resolved the request for the rest
C13_Witness ==
  /\ pc[1] = "resume"
  /\ op[1].ret.ok
  /\ op[1].ret.n > op[1].pre
  /\ op[1].pre > 0
  /\ request = NoRequest
  /\ lastPeek.valid
  /\ lastPeek.taken < taken
  /\ lastPeek.qbytes = op[1].pre

\* C14: the first of resolve and reject fixes the outcome of a request: once its
\* Deferred is resolved or rejected no signal of the stream changes that, and the
\* call it belongs to settles with the delivered byte count or with the first
\* error.
C14_FirstSettlementWins ==
  [][\A c \in Tasks :
       (pc[c] = "awaitRead" /\ deferred[c].st \in {"resolved", "rejected"})
       => \/ pc'[c] = "awaitRead" /\ deferred'[c] = deferred[c]
          \/ /\ pc'[c] = "resume"
             /\ op'[c].ret = IF deferred[c].st = "resolved"
                              THEN Ok(op[c].pre + deferred[c].n)
                              ELSE Err(deferred[c].err)]_vars

\* a termination signal has arrived after the readiness callback resolved the
\* request and before the request's promise callbacks ran
C14_Witness ==
  /\ pc[1] = "awaitRead"
  /\ deferred[1].st = "resolved"
  /\ endOfStream
  /\ fired # {}
  /\ request = NoRequest

\* C15 as stated: with one reader that awaits every call, the peek queue holds
\* no chunk or one.
C15_AtMostOneChunk == Len(peekQueue) <= 1

\* C15, amended: a peek for at least one byte and for no fewer bytes than the
\* peek queue holds takes every chunk out of the queue, nothing changes the queue
\* while the call is in flight, and when the peek succeeds it puts back one chunk
\* that holds everything it returned: the queue then holds exactly one chunk.
C15_LongPeekLeavesOneChunk ==
  [][/\ (Calls(1) /\ op'[1].kind = "peek" /\ op'[1].length >= 1
           /\ op'[1].length >= QueueLen)
        => peekQueue' = <<>>
     /\ (pc[1] # "idle" /\ pc'[1] # "idle") => peekQueue' = peekQueue
     /\ (pc[1] = "resume" /\ pc'[1] = "idle" /\ op[1].kind = "peek" /\ op[1].ret.ok
           /\ op[1].length >= 1 /\ peekQueue = <<>>)
        => /\ Len(peekQueue') = 1
           /\ QueueBytes(peekQueue', mem') = Got(1)]_vars

\* a peek of one byte had left two chunks, and a longer peek has taken both
C15_Witness ==
  /\ pc[1] = "resume"
  /\ op[1].kind = "peek"
  /\ op[1].ret = Ok(2)
  /\ peekQueue = <<>>
  /\ lastPeek.valid
  /\ lastPeek.n = 1
  /\ lastPeek.qbytes = 2

\* C16: with one reader that awaits every call, the peek queue holds no chunk
\* whenever a request is registered: the call that registered it had taken
\* everything out of the queue first.
C16_QueueEmptyWhilePending == request # NoRequest => peekQueue = <<>>

\* a call took a peeked byte out of the queue and waits for the rest
C16_Witness ==
  /\ request.task = 1
  /\ deferred[1].st = "pending"
  /\ op[1].pre > 0
  /\ request.length = op[1].length - op[1].pre

\* C17: a call that fails leaves the bytes of the peek queue as they were before
\* the call: one that fails at once has taken none out, and when the request of
\* a call is rejected, the bytes the call had taken out of the queue are in the
\* queue again, first in line for the next read.
C17_FailedCallKeepsPeeked ==
  [][\A c \in Tasks :
       /\ (Calls(c) /\ pc'[c] = "resume" /\ ~op'[c].ret.ok)
          => QueueBytes(peekQueue', mem') = QueueBytes(peekQueue, mem)
       /\ (pc[c] = "awaitRead" /\ pc'[c] = "resume" /\ ~op'[c].ret.ok)
          => /\ Len(QueueBytes(peekQueue', mem')) >= op[c].pre
             /\ SubSeq(QueueBytes(peekQueue', mem'), 1, op[c].pre)
                  = Bytes(mem, op[c].offset, op[c].pre)
       /\ (pc[c] = "resume" /\ pc'[c] = "idle" /\ ~op[c].ret.ok)
          => QueueBytes(peekQueue', mem') = QueueBytes(peekQueue, mem)]_vars

\* C18: every chunk of the peek queue holds at least one byte, and a call for at
\* least one byte that succeeds returns at least one byte.
C18_ChunksNotEmpty ==
  /\ \A j \in 1..Len(peekQueue) : peekQueue[j].len > 0
  /\ \A c \in Tasks :
       (pc[c] = "resume" /\ op[c].length > 0 /\ op[c].ret.ok) => op[c].ret.n >= 1

\* C19: the readiness callback runs only while a request is registered: no
\* 'readable' signal finds a listener that a settled request left behind, so
\* tryRead never reads the length of an empty request slot.
C19_TryReadHasRequest == ~crashed

\* C20: the bytes the peek queue holds do not depend on what is written to the
\* caller's buffer: a call takes the first bytes out of the queue, as many as it
\* asked for, and the queue goes on to hold the bytes that followed them, also
\* when the call writes to a part of the buffer an earlier peek was given.
C20_PeekedBytesKept ==
  [][\A c \in Tasks :
       Calls(c)
       => QueueBytes(peekQueue', mem')
            = SubSeq(QueueBytes(peekQueue, mem), Min(op'[c].length, QueueLen) + 1,
                     QueueLen)]_vars

====
